---- MODULE Spec2Model ----
(***************************************************************************)
(* Relative Output Stability (quantus/metrics/robustness/                  *)
(* relative_output_stability.py): the objective                            *)
(* relative_output_stability_objective and the sampling loop and           *)
(* reduction of evaluate_batch.                                            *)
(*                                                                         *)
(* Numbers.  A value is an extended rational <<n, d>>: d > 0 is the        *)
(* fraction n/d in lowest terms, <<1,0>> and <<-1,0>> are +inf and -inf,   *)
(* <<0,0>> is NaN.  Arithmetic is exact (floating point rounding is not    *)
(* modelled).                                                              *)
(*                                                                         *)
(* Norms.  Every output of np.linalg.norm is a magnitude m >= 0, and it is *)
(* carried as its square m^2, which is an exact rational (no square        *)
(* roots).  On magnitudes squaring is a bijection that preserves order,    *)
(* equality, zero, inf and NaN, and (a/b)^2 = a^2/b^2, so quotients,       *)
(* comparisons and maxima of magnitudes are computed on the squares.       *)
(* The nominator, the denominator, the objective `ros`, ros_batch and      *)
(* result are all in this squared encoding.                                *)
(***************************************************************************)
EXTENDS Integers, Sequences, FiniteSets, TLC

\* ---------------------------------------------------------------- bounds
MaxNrSamples == 2
NumClasses == 2

\* the batch holds two inputs, numbered 1 and 2
Samples == {1, 2}
\* batch_size = x_batch.shape[0]
BatchSize == Cardinality(Samples)

\* ------------------------------------------------------ extended rationals
NaN == <<0, 0>>
Inf == <<1, 0>>
Zero == <<0, 1>>

Abs(i) == IF i < 0 THEN -i ELSE i
Sign(i) == IF i < 0 THEN -1 ELSE IF i = 0 THEN 0 ELSE 1

RECURSIVE GCD(_, _)
GCD(a, b) == IF b = 0 THEN a ELSE GCD(b, a % b)

RNorm(n, d) ==
    IF d = 0 THEN <<Sign(n), 0>>
    ELSE LET g == GCD(Abs(n), Abs(d))
         IN  <<(Sign(d) * n) \div g, Abs(d) \div g>>

Int2R(i) == <<i, 1>>
IsNaN(r) == r = NaN
IsFinite(r) == r[2] # 0

\* true division of floats: x/0 is +-inf, 0/0 and inf/inf are NaN
RDiv(a, b) ==
    LET sg == IF b[1] < 0 THEN -1 ELSE 1
    IN  RNorm(a[1] * b[2] * sg, a[2] * Abs(b[1]))

RAdd(a, b) ==
    IF IsNaN(a) \/ IsNaN(b) THEN NaN
    ELSE IF a[2] = 0 /\ b[2] = 0 THEN (IF a = b THEN a ELSE NaN)
    ELSE IF a[2] = 0 THEN a
    ELSE IF b[2] = 0 THEN b
    ELSE RNorm(a[1] * b[2] + b[1] * a[2], a[2] * b[2])

RSq(a) == <<a[1] * a[1], a[2] * a[2]>>

\* a < b on non-NaN values
RLess(a, b) == a[1] * b[2] < b[1] * a[2]

\* ----------------------------------------------------------------- arrays
\* An ndarray is [shape |-> <<d1, ..., dr>>, data |-> row-major sequence].
RECURSIVE Prod(_, _)
Prod(shape, from) ==
    IF from > Len(shape) THEN 1 ELSE shape[from] * Prod(shape, from + 1)

Size(shape) == Prod(shape, 1)
ndim(t) == Len(t.shape)
Full(shape, v) == [shape |-> shape, data |-> [i \in 1..Size(shape) |-> v]]
\* abs(t)**2 element-wise
SquareAll(t) == [shape |-> t.shape, data |-> [i \in 1..Len(t.data) |-> RSq(t.data[i])]]
\* s / t element-wise, for arrays of one shape
DivideAll(s, t) ==
    [shape |-> s.shape, data |-> [i \in 1..Len(s.data) |-> RDiv(s.data[i], t.data[i])]]

RECURSIVE SumSeq(_, _, _)
SumSeq(d, lo, hi) == IF lo > hi THEN Zero ELSE RAdd(d[lo], SumSeq(d, lo + 1, hi))

\* sum over the trailing k axes
SumLast(t, k) ==
    LET r == Len(t.shape)
        blk == Prod(t.shape, r - k + 1)
        sh == SubSeq(t.shape, 1, r - k)
    IN  [shape |-> sh,
         data |-> [i \in 1..Size(sh) |-> SumSeq(t.data, (i - 1) * blk + 1, i * blk)]]

\* np.linalg.norm(arr, axis=<the last k axes>): arr given as squared
\* magnitudes, the result as squared magnitudes (2-norm / Frobenius norm).
LinalgNorm(tsq, k) == SumLast(tsq, k)

\* numpy broadcasting of two shapes (right aligned)
PadShape(s, r) == [i \in 1..r |-> IF i <= r - Len(s) THEN 1 ELSE s[i - (r - Len(s))]]
MaxI(a, b) == IF a > b THEN a ELSE b
CanBroadcast(sa, sb) ==
    LET r == MaxI(Len(sa), Len(sb))
        pa == PadShape(sa, r)
        pb == PadShape(sb, r)
    IN  \A i \in 1..r : pa[i] = pb[i] \/ pa[i] = 1 \/ pb[i] = 1
BroadcastShape(sa, sb) ==
    LET r == MaxI(Len(sa), Len(sb))
        pa == PadShape(sa, r)
        pb == PadShape(sb, r)
    IN  [i \in 1..r |-> MaxI(pa[i], pb[i])]

\* 1-based flat position, in an operand of shape s, of the element that
\* numpy pairs with 1-based flat position i of the broadcast shape out
RECURSIVE SrcOffset(_, _, _, _)
SrcOffset(i0, out, ps, k) ==
    IF k > Len(out) THEN 0
    ELSE LET c == (i0 \div Prod(out, k + 1)) % out[k]
             cs == IF ps[k] = 1 THEN 0 ELSE c
         IN  cs * Prod(ps, k + 1) + SrcOffset(i0, out, ps, k + 1)
SrcIndex(i, out, s) == SrcOffset(i - 1, out, PadShape(s, Len(out)), 1) + 1

BroadcastTo(t, out) ==
    [shape |-> out,
     data |-> [i \in 1..Size(out) |-> t.data[SrcIndex(i, out, t.shape)]]]

\* np.expand_dims(t, axis=-1)
expand_dims(t) == [shape |-> Append(t.shape, 1), data |-> t.data]


\* ------------------------------------------- relative_output_stability_objective
NoArray == [shape |-> <<0>>, data |-> <<>>]

\* norm_function without the branch for rank 2
norm_function_No2D(multi_label_, num_dim) ==
    IF num_dim = 4 THEN <<2, 1>>
    ELSE IF num_dim = 3 THEN <<2>>
    ELSE IF num_dim = 5 /\ multi_label_ THEN <<2, 1>>
    ELSE <<>>

\* The trailing-axis counts of the successive np.linalg.norm calls of the
\* selected norm_function; <<>> stands for the ValueError branch.
norm_function(multi_label_, num_dim) ==
    IF num_dim = 4 THEN <<2, 1>>
    ELSE IF num_dim = 3 THEN <<2>>
    ELSE IF num_dim = 2 THEN <<1>>
    ELSE IF num_dim = 5 /\ multi_label_ THEN <<2, 1>>
    ELSE <<>>

RECURSIVE ApplyNorm(_, _, _)
ApplyNorm(stages, k, tsq) ==
    IF k > Len(stages) THEN tsq
    ELSE ApplyNorm(stages, k + 1, LinalgNorm(tsq, stages[k]))

\* the divisor without its guard: e_x
ElementDivisor_NoGuard(e, eps) == e

\* e_x + (e_x == 0) * eps_min, one element
ElementDivisor(e, eps) == e + (IF e = 0 THEN 1 ELSE 0) * eps

\* the quotient taken relative to the perturbed explanation e_xs
ElementQuotients_ByPerturbed(e_x, e_xs, eps) ==
    [shape |-> e_x.shape,
     data |-> [i \in 1..Len(e_x.data) |->
                  RDiv(Int2R(e_x.data[i] - e_xs.data[i]),
                       Int2R(e_xs.data[i] + (IF e_xs.data[i] = 0 THEN 1 ELSE 0) * eps))]]

\* (e_x - e_xs) / (e_x + (e_x == 0) * eps_min), element-wise
ElementQuotients(e_x, e_xs, eps) ==
    [shape |-> e_x.shape,
     data |-> [i \in 1..Len(e_x.data) |->
                  RDiv(Int2R(e_x.data[i] - e_xs.data[i]),
                       Int2R(ElementDivisor(e_x.data[i], eps)))]]

Nominator(stages, e_x, e_xs, eps) ==
    ApplyNorm(stages, 1, SquareAll(ElementQuotients(e_x, e_xs, eps)))

\* np.linalg.norm(h_x - h_xs, axis=-1)
LogitNorm(h_x, h_xs) ==
    LinalgNorm([shape |-> h_x.shape,
                data |-> [i \in 1..Len(h_x.data) |->
                             RSq(Int2R(h_x.data[i] - h_xs.data[i]))]], 1)

\* the guard as a floor: max(denominator, eps_min)
DenominatorGuard_Floor(dsq, eps) ==
    IF RLess(dsq, RSq(Int2R(eps))) THEN RSq(Int2R(eps)) ELSE dsq

\* denominator += (denominator == 0) * eps_min, one element (a magnitude m
\* carried as m^2: m + eps_min when m = 0, m unchanged otherwise)
DenominatorGuard(dsq, eps) == IF dsq = Zero THEN RSq(Int2R(eps)) ELSE dsq

Denominator(h_x, h_xs, eps) ==
    LET n == LogitNorm(h_x, h_xs)
    IN  [shape |-> n.shape,
         data |-> [i \in 1..Len(n.data) |-> DenominatorGuard(n.data[i], eps)]]

\* nominator / denominator with numpy broadcasting
Divide(num, den) ==
    IF ~CanBroadcast(num.shape, den.shape)
    THEN [raised |-> "ValueError", value |-> NoArray]
    ELSE LET out == BroadcastShape(num.shape, den.shape)
         IN  [raised |-> "none",
              value |-> DivideAll(BroadcastTo(num, out), BroadcastTo(den, out))]

relative_output_stability_objective(multi_label_, eps, h_x, h_xs, e_x, e_xs) ==
    LET stages == norm_function(multi_label_, ndim(e_x))
    IN  IF stages = <<>>
        THEN [raised |-> "ValueError", value |-> NoArray]
        ELSE LET nominator == Nominator(stages, e_x, e_xs, eps)
                 denominator == Denominator(h_x, h_xs, eps)
             IN  IF multi_label_
                 THEN Divide(nominator, expand_dims(denominator))
                 ELSE Divide(nominator, denominator)


\* ------------------------------------------------------------ collaborators
\* Inputs are abstract points: 0 is an input of x_batch, 1 an input the
\* perturbation moved to where the model answers differently.
PerturbLevels == {0, 1}

\* model.predict: deterministic, one row of NumClasses logits per input
predict(x) ==
    [shape |-> <<Len(x), NumClasses>>,
     data |-> [i \in 1..(Len(x) * NumClasses) |-> x[((i - 1) \div NumClasses) + 1]]]

\* explain_batch: one explanation block per input, of the shape of a_batch
explain_batch(x, shape) ==
    LET blk == Size(shape) \div Len(x)
    IN  [shape |-> shape,
         data |-> [i \in 1..Size(shape) |-> 1 - x[((i - 1) \div blk) + 1]]]

\* ------------------------------------------------------------------- inputs
ExplShapes ==
    { <<BatchSize>>,
      <<BatchSize, BatchSize>>,
      <<BatchSize, BatchSize, 1>>,
      <<BatchSize, BatchSize + 1, 1>>,
      <<BatchSize, BatchSize, 1, 1>>,
      <<BatchSize, BatchSize + 1, 1, 1, 1>>,
      <<BatchSize, 1, 1, 1, 1, 1>> }
EpsMinValues == {1, 2}
\* the blocks of a_batch: every sample without a zero element, or the even
\* samples with one
BlockKinds ==
    { [s \in Samples |-> "nz"],
      [s \in Samples |-> IF s % 2 = 1 THEN "nz" ELSE "z"] }

\* a caller-supplied explanation batch: the block of sample s alternates
\* 1, 2, 1, ... (kind "nz", no zero element) or 0, 2, 0, ... (kind "z")
ExplBatch(shape, kinds) ==
    LET blk == Size(shape) \div BatchSize
    IN  [shape |-> shape,
         data |-> [i \in 1..Size(shape) |->
                      LET s == ((i - 1) \div blk) + 1
                          j == (i - 1) % blk
                      IN  IF kinds[s] = "nz" THEN 1 + (j % 2) ELSE 2 * (j % 2)]]

\* labels: one per sample, or in multi-label mode a list per sample (odd
\* samples carry every label 0..L-1, even samples the last label only)
LabelBatch(ml, shape) ==
    IF ~ml THEN [s \in Samples |-> 0]
    ELSE LET L == IF Len(shape) >= 2 THEN shape[2] ELSE 1
         IN  [s \in Samples |->
                 IF s % 2 = 1 THEN [j \in 1..L |-> j - 1] ELSE <<L - 1>>]

\* -------------------------------------------------------------------- state
VARIABLES
    multi_label, return_aggregate, nr_samples, eps_min,    \* self.*
    x_batch, y_batch, a_batch,                              \* arguments
    logits, ros_batch, index, x_perturbed, a_batch_perturbed,
    logits_perturbed, ros, changed_prediction_indices, result,
    pc, error,
    draws,    \* history: per finished draw, the objective value, the report
              \* of the detector and the perturbed explanations and logits
    calls     \* history: the collaborator calls and steps, in order

config == <<multi_label, return_aggregate, nr_samples, eps_min>>
args == <<x_batch, y_batch, a_batch>>
locals == <<logits, ros_batch, index, x_perturbed, a_batch_perturbed,
            logits_perturbed, ros, changed_prediction_indices, result>>
vars == <<config, args, locals, pc, error, draws, calls>>

Init ==
    /\ multi_label \in BOOLEAN
    /\ return_aggregate \in BOOLEAN
    /\ nr_samples \in 1..MaxNrSamples
    /\ eps_min \in EpsMinValues
    /\ x_batch = [s \in Samples |-> 0]
    /\ \E shape \in ExplShapes, kinds \in BlockKinds :
          /\ a_batch = ExplBatch(shape, kinds)
          /\ y_batch = LabelBatch(multi_label, shape)
    /\ logits = NoArray
    /\ ros_batch = <<>>
    /\ index = 0
    /\ x_perturbed = <<>>
    /\ a_batch_perturbed = NoArray
    /\ logits_perturbed = NoArray
    /\ ros = NoArray
    /\ changed_prediction_indices = {}
    /\ result = NoArray
    /\ pc = "start"
    /\ error = "none"
    /\ draws = <<>>
    /\ calls = <<>>

\* ----------------------------------------------------------- evaluate_batch
\* shape of one row ros_batch[index]
RowShape ==
    IF multi_label THEN <<a_batch.shape[1], a_batch.shape[2]>>
    ELSE <<Len(x_batch)>>

\* numpy item assignment target[...] = src broadcasts src to the target
AssignableTo(src, target) ==
    LET r == MaxI(Len(src), Len(target))
        ps == PadShape(src, r)
        pt == PadShape(target, r)
    IN  \A i \in 1..r : ps[i] = pt[i] \/ ps[i] = 1

\* logits = model.predict(x_batch); ros_batch = np.zeros(...)
Begin ==
    /\ pc = "start"
    /\ logits' = predict(x_batch)
    /\ calls' = Append(calls, "predict_x_batch")
    /\ IF multi_label /\ ndim(a_batch) < 2
       THEN /\ pc' = "raised"
            /\ error' = "IndexError"
            /\ UNCHANGED ros_batch
       ELSE /\ ros_batch' = [d \in 1..nr_samples |-> Full(RowShape, Zero)]
            /\ pc' = IF nr_samples > 0 THEN "perturb" ELSE "reduce"
            /\ UNCHANGED error
    /\ UNCHANGED <<config, args, index, x_perturbed, a_batch_perturbed,
                   logits_perturbed, ros, changed_prediction_indices, result,
                   draws>>

\* x_perturbed = perturb_batch(...)
Perturb ==
    /\ pc = "perturb"
    /\ \E xp \in [Samples -> PerturbLevels] : x_perturbed' = xp
    /\ calls' = Append(calls, "perturb")
    /\ pc' = "explain"
    /\ UNCHANGED <<config, args, logits, ros_batch, index, a_batch_perturbed,
                   logits_perturbed, ros, changed_prediction_indices, result,
                   error, draws>>

\* a_batch_perturbed = self.explain_batch(model, x_perturbed, y_batch)
Explain ==
    /\ pc = "explain"
    /\ a_batch_perturbed' = explain_batch(x_perturbed, a_batch.shape)
    /\ calls' = Append(calls, "explain")
    /\ pc' = "predict"
    /\ UNCHANGED <<config, args, logits, ros_batch, index, x_perturbed,
                   logits_perturbed, ros, changed_prediction_indices, result,
                   error, draws>>

\* the perturbed forward pass also overwriting the baseline logits
PredictPerturbed_OverwritesBaseline ==
    /\ pc = "predict"
    /\ logits_perturbed' = predict(x_perturbed)
    /\ logits' = predict(x_perturbed)
    /\ calls' = Append(calls, "predict_x_perturbed")
    /\ pc' = "objective"
    /\ UNCHANGED <<config, args, ros_batch, index, x_perturbed,
                   a_batch_perturbed, ros, changed_prediction_indices, result,
                   error, draws>>

\* logits_perturbed = model.predict(x_perturbed)
PredictPerturbed ==
    /\ pc = "predict"
    /\ logits_perturbed' = predict(x_perturbed)
    /\ calls' = Append(calls, "predict_x_perturbed")
    /\ pc' = "objective"
    /\ UNCHANGED <<config, args, logits, ros_batch, index, x_perturbed,
                   a_batch_perturbed, ros, changed_prediction_indices, result,
                   error, draws>>

\* ros = self.relative_output_stability_objective(...); ros_batch[index] = ros
Objective ==
    /\ pc = "objective"
    /\ LET r == relative_output_stability_objective(
                    multi_label, eps_min, logits, logits_perturbed,
                    a_batch, a_batch_perturbed)
       IN  IF r.raised # "none"
           THEN /\ pc' = "raised"
                /\ error' = r.raised
                /\ calls' = Append(calls, "objective")
                /\ UNCHANGED <<ros, ros_batch>>
           ELSE /\ ros' = r.value
                /\ IF AssignableTo(r.value.shape, RowShape)
                   THEN /\ ros_batch' = [ros_batch EXCEPT
                                            ![index + 1] = BroadcastTo(r.value, RowShape)]
                        /\ calls' = calls \o <<"objective", "store">>
                        /\ pc' = "changed"
                        /\ UNCHANGED error
                   ELSE /\ pc' = "raised"
                        /\ error' = "ValueError"
                        /\ calls' = Append(calls, "objective")
                        /\ UNCHANGED ros_batch
    /\ UNCHANGED <<config, args, logits, index, x_perturbed, a_batch_perturbed,
                   logits_perturbed, changed_prediction_indices, result, draws>>

\* the whole row of the draw invalidated: ros_batch[index] = np.nan
MarkNaN_WholeRow(row, changed) ==
    [shape |-> row.shape, data |-> [i \in 1..Len(row.data) |-> NaN]]

\* ros_batch[index, changed_prediction_indices] = np.nan
MarkNaN(row, changed) ==
    LET per == Size(row.shape) \div row.shape[1]
    IN  [shape |-> row.shape,
         data |-> [i \in 1..Len(row.data) |->
                      IF (((i - 1) \div per) + 1) \in changed THEN NaN
                      ELSE row.data[i]]]

\* changed_prediction_indices = self.changed_prediction_indices_func(...);
\* the rows of the reported samples become NaN; the for loop advances
Changed ==
    /\ pc = "changed"
    /\ \E c \in SUBSET Samples :
          /\ changed_prediction_indices' = c
          /\ ros_batch' = IF c # {}
                          THEN [ros_batch EXCEPT ![index + 1] = MarkNaN(@, c)]
                          ELSE ros_batch
          /\ draws' = Append(draws, [ros |-> ros, changed |-> c,
                                     e_xs |-> a_batch_perturbed,
                                     h_xs |-> logits_perturbed])
    /\ calls' = Append(calls, "changed_prediction_indices")
    /\ index' = index + 1
    /\ pc' = IF index + 1 < nr_samples THEN "perturb" ELSE "reduce"
    /\ UNCHANGED <<config, args, logits, x_perturbed, a_batch_perturbed,
                   logits_perturbed, ros, result, error>>

\* np.max of a set of values: NaN propagates
RECURSIVE MaxOf(_, _, _)
MaxOf(seq, k, best) ==
    IF k > Len(seq) THEN best
    ELSE MaxOf(seq, k + 1, IF RLess(best, seq[k]) THEN seq[k] ELSE best)
\* np.nanmax: NaN entries ignored
NpMax_IgnoresNaN(seq) ==
    LET valid == SelectSeq(seq, LAMBDA v : ~IsNaN(v))
    IN  IF valid = <<>> THEN NaN ELSE MaxOf(valid, 2, valid[1])
NpMax(seq) ==
    IF \E k \in 1..Len(seq) : IsNaN(seq[k]) THEN NaN ELSE MaxOf(seq, 2, seq[1])

\* the reduction leaving out the last draw
MaxOverDraws_SkipsLastDraw(batch) ==
    LET n == IF Len(batch) > 1 THEN Len(batch) - 1 ELSE 1
    IN  [shape |-> batch[1].shape,
         data |-> [i \in 1..Len(batch[1].data) |->
                      MaxOf([d \in 1..n |-> batch[d].data[i]], 2, batch[1].data[i])]]

\* np.max(ros_batch, axis=0)
MaxOverDraws(batch) ==
    [shape |-> batch[1].shape,
     data |-> [i \in 1..Len(batch[1].data) |->
                  NpMax([d \in 1..Len(batch) |-> batch[d].data[i]])]]

\* result_list: result[index, label] for every label of every sample
SelectLabels(res, y) ==
    [i \in 1..Len(y) |->
        [j \in 1..Len(y[i]) |-> res.data[(i - 1) * res.shape[2] + y[i][j] + 1]]]

\* result = np.max(ros_batch, axis=0); multi-label selection; aggregation;
\* return result
Reduce ==
    /\ pc = "reduce"
    /\ LET m == MaxOverDraws(ros_batch)
           r == IF multi_label THEN SelectLabels(m, y_batch) ELSE m
       IN  result' = IF return_aggregate THEN <<[aggregate_func |-> r]>> ELSE r
    /\ calls' = Append(calls, "max")
    /\ pc' = "done"
    /\ UNCHANGED <<config, args, logits, ros_batch, index, x_perturbed,
                   a_batch_perturbed, logits_perturbed, ros,
                   changed_prediction_indices, error, draws>>

Next == Begin \/ Perturb \/ Explain \/ PredictPerturbed \/ Objective \/ Changed \/ Reduce

Spec == Init /\ [][Next]_vars


\* =================================================================== claims
\* Reference arithmetic for the statements below, written from the
\* statements and not from the operators of the objective.
RECURSIVE RefSum(_, _, _)
RefSum(seq, lo, hi) == IF lo > hi THEN Zero ELSE RAdd(RefSum(seq, lo, hi - 1), seq[hi])

Block(t) == Len(t.data) \div t.shape[1]
\* squared L2 norm of the block of sample s (all non-batch axes)
RefNormSq(seq, blk, s) == RefSum(seq, (s - 1) * blk + 1, s * blk)

DiffSq(t, u) == [i \in 1..Len(t.data) |-> RSq(Int2R(t.data[i] - u.data[i]))]
SelfSq(t) == [i \in 1..Len(t.data) |-> RSq(Int2R(t.data[i]))]
QuotSq(t, u) ==
    [i \in 1..Len(t.data) |-> RSq(RDiv(Int2R(t.data[i] - u.data[i]), Int2R(t.data[i])))]

NoZero(t) == \A i \in 1..Len(t.data) : t.data[i] # 0
RowsDiffer(h, hs, s) ==
    \E c \in 1..h.shape[2] :
        h.data[(s - 1) * h.shape[2] + c] # hs.data[(s - 1) * h.shape[2] + c]

\* the objective has just been computed and stored for the current draw
ObjectiveDone == pc = "changed"

\* C1 (as stated): with no zero in e_x and h_x # h_xs the objective of a
\* sample is norm(e_x - e_xs) / norm(e_x) divided by norm(h_x - h_xs).
C1_AsStated ==
    (ObjectiveDone /\ ~multi_label /\ NoZero(a_batch)) =>
        \A s \in Samples :
            RowsDiffer(logits, logits_perturbed, s) =>
                ros.data[s] =
                    RDiv(RDiv(RefNormSq(DiffSq(a_batch, a_batch_perturbed), Block(a_batch), s),
                              RefNormSq(SelfSq(a_batch), Block(a_batch), s)),
                         RefNormSq(DiffSq(logits, logits_perturbed), NumClasses, s))

\* C1 (amended): in single-label mode, with no zero in e_x and h_x # h_xs,
\* the objective of a sample is the L2 norm over all non-batch axes of the
\* element-wise quotient (e_x - e_xs) / e_x, divided by norm(h_x - h_xs).
C1_QuotientNorm ==
    (ObjectiveDone /\ ~multi_label /\ NoZero(a_batch)) =>
        /\ ros.shape = <<BatchSize>>
        /\ \A s \in Samples :
              RowsDiffer(logits, logits_perturbed, s) =>
                  ros.data[s] =
                      RDiv(RefNormSq(QuotSq(a_batch, a_batch_perturbed), Block(a_batch), s),
                           RefNormSq(DiffSq(logits, logits_perturbed), NumClasses, s))

C1_Witness ==
    /\ ObjectiveDone /\ ~multi_label /\ NoZero(a_batch)
    /\ ndim(a_batch) = 4
    /\ \A s \in Samples : RowsDiffer(logits, logits_perturbed, s)
    /\ \E s \in Samples : IsFinite(ros.data[s]) /\ ros.data[s] # Zero

\* C4: the objective raises no error for explanation ranks 2, 3 and 4, nor
\* for rank 5 in multi-label mode; for every other rank it raises ValueError
\* and yields no value.
C4_RankDispatch ==
    pc = "objective" =>
        LET r == relative_output_stability_objective(
                     multi_label, eps_min, logits, logits_perturbed,
                     a_batch, a_batch_perturbed)
            supported == \/ ndim(a_batch) \in {2, 3, 4}
                         \/ (ndim(a_batch) = 5 /\ multi_label)
        IN  /\ supported => (r.raised = "none" /\ r.value # NoArray)
            /\ ~supported => (r.raised = "ValueError" /\ r.value = NoArray)

C4_Witness ==
    /\ pc = "raised" /\ error = "ValueError"
    /\ ndim(a_batch) = 5 /\ ~multi_label
    /\ ros = NoArray

C6_ElementGuard ==
    (ObjectiveDone /\ eps_min # 0) =>
        /\ \A i \in 1..Len(a_batch.data) :
              LET e == a_batch.data[i]
              IN  /\ ElementDivisor(e, eps_min) = (IF e = 0 THEN eps_min ELSE e)
                  /\ ElementDivisor(e, eps_min) # 0
        /\ LET q == ElementQuotients(a_batch, a_batch_perturbed, eps_min)
           IN  \A i \in 1..Len(q.data) : IsFinite(q.data[i])

C6_Witness ==
    /\ ObjectiveDone
    /\ \E i \in 1..Len(a_batch.data) :
          a_batch.data[i] = 0 /\ a_batch_perturbed.data[i] # 0
    /\ \E i \in 1..Len(a_batch.data) : a_batch.data[i] # 0

\* C8: the denominator of every sample is max(norm(h_x - h_xs), eps_min),
\* so a norm below eps_min (also one strictly between 0 and eps_min) gives
\* the denominator eps_min.
C8_DenominatorIsMax ==
    ObjectiveDone =>
        LET den == Denominator(logits, logits_perturbed, eps_min)
        IN  \A s \in Samples :
               LET n == RefNormSq(DiffSq(logits, logits_perturbed), NumClasses, s)
                   e == RSq(Int2R(eps_min))
               IN  den.data[s] = (IF RLess(n, e) THEN e ELSE n)


\* ---- the loop and the reduction
Finished == pc = "done" /\ ~return_aggregate
Draws == 1..Len(draws)

\* the returned scores are indexed by sample and, in multi-label mode, by
\* the position j of a label in y_batch[s]
Slots(s) == IF multi_label THEN 1..Len(y_batch[s]) ELSE {1}
Score(s, j) == IF multi_label THEN result[s][j] ELSE result.data[s]
CellPos(s, j) ==
    IF multi_label THEN (s - 1) * a_batch.shape[2] + y_batch[s][j] + 1 ELSE s
Cell(d, s, j) == ros_batch[d].data[CellPos(s, j)]
IsUpperBound(v, s, j) == \A d \in 1..nr_samples : ~RLess(v, Cell(d, s, j))

\* C2 (as stated): each returned score is the largest non-NaN objective
\* value among the draws of its sample, and with nr_samples = 1 the scores
\* equal the one row of the DrawMatrix.
C2_AsStated ==
    Finished =>
        \A s \in Samples : \A j \in Slots(s) :
            LET valid == {d \in 1..nr_samples : ~IsNaN(Cell(d, s, j))}
            IN  /\ valid # {} =>
                      /\ \E d \in valid : Score(s, j) = Cell(d, s, j)
                      /\ \A d \in valid : ~RLess(Score(s, j), Cell(d, s, j))
                /\ nr_samples = 1 => Score(s, j) = Cell(1, s, j)

\* C2 (amended): each returned score is NaN when any draw of its sample is
\* NaN in the DrawMatrix and otherwise the largest value among the draws;
\* with nr_samples = 1 the scores equal the one row of the DrawMatrix.
C2_MaxOrNaN ==
    Finished =>
        \A s \in Samples : \A j \in Slots(s) :
            /\ IF \E d \in 1..nr_samples : IsNaN(Cell(d, s, j))
               THEN IsNaN(Score(s, j))
               ELSE /\ \E d \in 1..nr_samples : Score(s, j) = Cell(d, s, j)
                    /\ IsUpperBound(Score(s, j), s, j)
            /\ nr_samples = 1 => Score(s, j) = Cell(1, s, j)

C2_Witness ==
    /\ Finished /\ nr_samples = 2 /\ ~multi_label
    /\ IsNaN(Cell(1, 1, 1)) /\ ~IsNaN(Cell(2, 1, 1)) /\ IsNaN(Score(1, 1))
    /\ ~IsNaN(Cell(1, 2, 1)) /\ RLess(Cell(1, 2, 1), Cell(2, 2, 1))
    /\ Score(2, 1) = Cell(2, 2, 1)

SampleOfPos(i, shape) == ((i - 1) \div (Size(shape) \div shape[1])) + 1

\* C3: the DrawMatrix has nr_samples rows; once the loop has finished the
\* cell of draw d and sample s is NaN when the detector reported s on draw d
\* and is otherwise the objective value computed for s on draw d; a report
\* neither stops the loop nor touches the cells of other samples.
C3_DrawMatrix ==
    /\ pc \notin {"start", "raised"} => Len(ros_batch) = nr_samples
    /\ pc \in {"reduce", "done"} => (Len(draws) = nr_samples /\ error = "none")
    /\ \A d \in Draws :
          /\ ros_batch[d].shape = RowShape
          /\ draws[d].ros.shape = RowShape
          /\ \A i \in 1..Len(ros_batch[d].data) :
                ros_batch[d].data[i] =
                    (IF SampleOfPos(i, RowShape) \in draws[d].changed
                     THEN NaN ELSE draws[d].ros.data[i])

C3_Witness ==
    /\ pc = "done" /\ nr_samples = 2
    /\ draws[1].changed = {1} /\ draws[2].changed = {}
    /\ \A i \in 1..Len(ros_batch[1].data) :
          IsNaN(ros_batch[1].data[i]) <=> SampleOfPos(i, RowShape) = 1
    /\ \E i \in 1..Len(ros_batch[2].data) : ros_batch[2].data[i] # Zero

\* the objective of sample s and label l, computed on its own: the L2 norm
\* over the features of the guarded element-wise quotient, over the guarded
\* norm of the logit difference of s
RefLabelObjective(d, s, l) ==
    LET L == a_batch.shape[2]
        F == Len(a_batch.data) \div (a_batch.shape[1] * L)
        base == ((s - 1) * L + l) * F
        q == [f \in 1..F |->
                 LET e == a_batch.data[base + f]
                 IN  RSq(RDiv(Int2R(e - draws[d].e_xs.data[base + f]),
                              Int2R(IF e = 0 THEN eps_min ELSE e)))]
        n == RefNormSq(DiffSq(logits, draws[d].h_xs), NumClasses, s)
    IN  RDiv(RefSum(q, 1, F), IF n = Zero THEN RSq(Int2R(eps_min)) ELSE n)

\* C7: in multi-label mode with a rank-3 explanation batch (label axis
\* included) evaluate_batch completes and returns, per sample, one score for
\* each label of y_batch, the max over the draws of the objective computed
\* for that sample and that label alone.
C7_MultiLabelRank3 ==
    (multi_label /\ ndim(a_batch) = 3) =>
        /\ pc # "raised"
        /\ (Finished /\ \A d \in Draws : draws[d].changed = {}) =>
              /\ Len(result) = BatchSize
              /\ \A s \in Samples :
                    /\ Len(result[s]) = Len(y_batch[s])
                    /\ \A j \in 1..Len(y_batch[s]) :
                          /\ \E d \in Draws :
                                result[s][j] = RefLabelObjective(d, s, y_batch[s][j])
                          /\ \A d \in Draws :
                                ~RLess(result[s][j], RefLabelObjective(d, s, y_batch[s][j]))

\* C9: the baseline predict(x_batch) runs once, before any draw; the draws
\* run one after another, each as perturb, explain, predict, objective,
\* store, prediction-change check; the reduction runs after the last draw;
\* the baseline logits, a_batch, nr_samples and eps_min never change.
DrawCalls ==
    <<"perturb", "explain", "predict_x_perturbed", "objective", "store",
      "changed_prediction_indices">>
RECURSIVE Repeat(_, _)
Repeat(seq, n) == IF n = 0 THEN <<>> ELSE seq \o Repeat(seq, n - 1)
ExpectedCalls == <<"predict_x_batch">> \o Repeat(DrawCalls, nr_samples) \o <<"max">>
IsPrefix(p, q) == Len(p) <= Len(q) /\ SubSeq(q, 1, Len(p)) = p

C9_State ==
    /\ IsPrefix(calls, ExpectedCalls)
    /\ pc = "done" => calls = ExpectedCalls
    /\ pc # "start" => logits = predict(x_batch)
C9_Step ==
    /\ nr_samples' = nr_samples
    /\ eps_min' = eps_min
    /\ a_batch' = a_batch
    /\ pc # "start" => logits' = logits
C9_Order == [](C9_State) /\ [][C9_Step]_vars

C9_Witness ==
    /\ pc = "done" /\ nr_samples = 2
    /\ Len(calls) = 2 + 2 * Len(DrawCalls)
    /\ draws[1].h_xs # draws[2].h_xs

\* C10: in single-label mode the final score of a sample is NaN exactly when
\* the detector reported the sample on at least one draw; a sample never
\* reported gets the maximum of its objective values over all draws,
\* whatever the NaN cells of other samples.
C10_NaNPolicy ==
    (Finished /\ ~multi_label) =>
        \A s \in Samples :
            LET reported == \E d \in Draws : s \in draws[d].changed
            IN  /\ IsNaN(result.data[s]) <=> reported
                /\ ~reported =>
                      /\ \E d \in Draws : result.data[s] = draws[d].ros.data[s]
                      /\ \A d \in Draws : ~RLess(result.data[s], draws[d].ros.data[s])

C10_Witness ==
    /\ Finished /\ ~multi_label /\ nr_samples = 2
    /\ draws[1].changed = {} /\ draws[2].changed = {2}
    /\ IsNaN(result.data[2]) /\ ~IsNaN(result.data[1])
    /\ RLess(draws[2].ros.data[1], draws[1].ros.data[1])
    /\ result.data[1] = draws[1].ros.data[1]

====
